---- MODULE Spec2Model ----
(***************************************************************************)
(* Model of poismf/pgd.c: alternating proximal-gradient / conjugate-       *)
(* gradient Poisson factorization (run_poismf and its helpers).            *)
(*                                                                         *)
(* A C double is modelled as a finite-precision value <<n, d>>:            *)
(*   <<n,1>>: the finite value n/Scale, |n| <= MaxMag,                     *)
(*   <<1,0>>: +inf,  <<-1,0>>: -inf,  <<0,0>>: NaN.                        *)
(* Sums are exact until they overflow to an infinity; products and         *)
(* quotients are truncated to the grid.  The sign of zero is not           *)
(* modelled.  Row and column indices are 1-based in the model (0-based     *)
(* in the C code); the *_indptr arrays keep the 0-based offsets.           *)
(***************************************************************************)
EXTENDS Integers, Sequences, FiniteSets, TLC

(* ---------------------------------------------------------------- bounds *)
MaxIter    == 2   \* numiter ranges over 0..MaxIter
MaxPass    == 1   \* npass ranges over 0..MaxPass
MaxThreads == 2   \* ncores and the default team size range over 1..MaxThreads
MaxK       == 2   \* k ranges over 1..MaxK

(* ------------------------------------------------ double-like arithmetic *)
Scale  == 16      \* a finite double is n/Scale, products and quotients truncated
MaxMag == 32767   \* |n| above MaxMag overflows to +inf / -inf

Abs(n) ==
    IF n < 0 THEN -n ELSE n

Sgn(n) ==
    IF n > 0 THEN 1 ELSE IF n < 0 THEN -1 ELSE 0

\* integer quotient truncated toward zero (b # 0)
TruncDiv(a, b) ==
    Sgn(a) * Sgn(b) * (Abs(a) \div Abs(b))

NaN   == <<0, 0>>
PInf  == <<1, 0>>
NInf  == <<-1, 0>>

\* the finite value n/Scale, or the infinity it overflows to
Fin(n) ==
    IF n > MaxMag THEN PInf ELSE IF n < -MaxMag THEN NInf ELSE <<n, 1>>

IsFin(a) ==
    a[2] = 1

R(n)  == <<n * Scale, 1>>
Zero  == <<0, 1>>
One   == <<Scale, 1>>
Half  == <<Scale \div 2, 1>>

dAdd(a, b) ==
    IF IsFin(a) /\ IsFin(b) THEN Fin(a[1] + b[1])
    ELSE IF IsFin(a) THEN b
    ELSE IF IsFin(b) THEN a
    ELSE IF a = b THEN a ELSE NaN

dMul(a, b) ==
    IF IsFin(a) /\ IsFin(b) THEN Fin(TruncDiv(a[1] * b[1], Scale))
    ELSE <<Sgn(a[1] * b[1]), 0>>

dNeg(a) ==
    <<-a[1], a[2]>>

dDiv(a, b) ==
    IF IsFin(a) /\ IsFin(b)
    THEN (IF b[1] = 0 THEN <<Sgn(a[1]), 0>>
          ELSE Fin(TruncDiv(a[1] * Scale, b[1])))
    ELSE IF IsFin(a) THEN (IF b = NaN THEN NaN ELSE Zero)
    ELSE IF IsFin(b) THEN <<a[1] * (IF b[1] < 0 THEN -1 ELSE 1), 0>>
    ELSE NaN

dRecip(a) ==
    dDiv(One, a)

\* x >= 0 on doubles: false for NaN and for negative values, true for +inf
dGE0(a) ==
    (IsFin(a) /\ a[1] >= 0) \/ a = PInf

\* x > 0 on doubles
dGT0(a) ==
    a[1] > 0

(* --------------------------------------------------------- BLAS fallback *)
RECURSIVE ddot_loop(_, _, _, _, _)
ddot_loop(n, x, y, i, out) ==
    IF i > n THEN out
    ELSE ddot_loop(n, x, y, i + 1, dAdd(out, dMul(x[i], y[i])))

cblas_ddot(n, x, y) ==
    ddot_loop(n, x, y, 1, Zero)

\* y += a * x, returned as the new y
cblas_daxpy(n, a, x, y) ==
    [i \in 1..n |-> dAdd(y[i], dMul(a, x[i]))]

\* x *= alpha, returned as the new x
cblas_dscal(n, alpha, x) ==
    [i \in 1..n |-> dMul(x[i], alpha)]

(* -------------------------------------------------------------- helpers *)
nonneg_noclip(x) ==
    x

nonneg(x) ==
    IF dGE0(x) THEN x ELSE Zero

\* for (i = 0; i < k; i++) v[i] = nonneg(v[i]);
ClipRow(v, k) ==
    [i \in 1..k |-> nonneg(v[i])]

\* memset(out, 0, sizeof(double) * n)
memset0(n) ==
    [i \in 1..n |-> Zero]

RECURSIVE sum_rows(_, _, _, _, _)
sum_rows(out, M, row, nrow, ncol) ==
    IF row > nrow THEN out
    ELSE sum_rows([col \in 1..ncol |-> dAdd(out[col], M[row][col])],
                  M, row + 1, nrow, ncol)

sum_by_cols_nomemset(out, M, nrow, ncol) ==
    sum_rows(out, M, 1, nrow, ncol)

\* the OpenMP pragma of sum_by_cols is guarded by _OPENMP > 20080101, which
\* no OpenMP release satisfies (_OPENMP is yyyymm), so the loop is sequential
\* and ncores is not used
sum_by_cols(out, M, nrow, ncol) ==
    sum_rows(memset0(ncol), M, 1, nrow, ncol)

\* the nnz entries of arr that start at offset ptr[row] (arr + ptr[row])
Slice(arr, ptr, row) ==
    [i \in 1..(ptr[row + 1] - ptr[row]) |-> arr[ptr[row] + i]]

(* ----------------------------------------------------- proximal gradient *)
RECURSIVE grad_pgd_loop(_, _, _, _, _, _, _, _)
grad_pgd_loop(out, curr, F, X, Xind, nnz_this, k, i) ==
    IF i > nnz_this THEN out
    ELSE grad_pgd_loop(
           cblas_daxpy(k, dDiv(R(X[i]), cblas_ddot(k, F[Xind[i]], curr)),
                       F[Xind[i]], out),
           curr, F, X, Xind, nnz_this, k, i + 1)

calc_grad_pgd(curr, F, X, Xind, nnz_this, k) ==
    grad_pgd_loop(memset0(k), curr, F, X, Xind, nnz_this, k, 1)

\* one pass of the loop body of pgd_iteration on row curr
pgd_pass(curr, F, X, Xind, nnz_this, k, cdiv, csum, step) ==
    LET g  == calc_grad_pgd(curr, F, X, Xind, nnz_this, k)
        a1 == cblas_daxpy(k, step, g, curr)
        a2 == cblas_daxpy(k, One, csum, a1)
        a3 == cblas_dscal(k, cdiv, a2)
    IN  ClipRow(a3, k)

RECURSIVE pgd_row(_, _, _, _, _, _, _, _, _, _)
pgd_row(curr, F, X, Xind, nnz_this, k, cdiv, csum, step, passes) ==
    IF passes = 0 THEN curr
    ELSE pgd_row(pgd_pass(curr, F, X, Xind, nnz_this, k, cdiv, csum, step),
                 F, X, Xind, nnz_this, k, cdiv, csum, step, passes - 1)

(* ---------------------------------------------------- conjugate gradient *)
RECURSIVE grad_single_loop(_, _, _, _, _, _, _, _)
grad_single_loop(grad, x, n, F, X, Xind, nnz_this, i) ==
    IF i > nnz_this THEN grad
    ELSE grad_single_loop(
           cblas_daxpy(n, dNeg(dDiv(R(X[i]), cblas_ddot(n, x, F[Xind[i]]))),
                       F[Xind[i]], grad),
           x, n, F, X, Xind, nnz_this, i + 1)

\* data = [F, Fsum, X, X_ind, nnz_this, l2_reg]
calc_grad_single(x, n, data) ==
    LET g0 == data.Fsum
        g1 == cblas_daxpy(n, dMul(R(2 * n), data.l2_reg), x, g0)
    IN  grad_single_loop(g1, x, n, data.F, data.X, data.X_ind, data.nnz_this, 1)

\* The external minimizer (nonneg_cg) is a black box.  Two behaviours are
\* covered, fixed for a run: it returns its start point, or the point one
\* unit gradient step away from it (which can leave the feasible set).
MinimizerMoves == {"stay", "step"}

minimize_nonneg_cg(x, n, grad, move) ==
    IF move = "stay" THEN x
    ELSE [i \in 1..n |-> dAdd(x[i], dNeg(grad[i]))]

(* ------------------------------------------------------------- inputs *)
\* Sparse inputs handed over by the caller, in both compressed views.
\*   antidiagonal [[0,5],[3,0]], one row [[2,1]], and a matrix with no
\*   columns (dimB = 0, every row empty).
Matrices ==
    { [dimA |-> 2, dimB |-> 2,
       Xr |-> <<5, 3>>, Xr_indptr |-> <<0, 1, 2>>, Xr_indices |-> <<2, 1>>,
       Xc |-> <<3, 5>>, Xc_indptr |-> <<0, 1, 2>>, Xc_indices |-> <<2, 1>>],
      [dimA |-> 1, dimB |-> 2,
       Xr |-> <<2, 1>>, Xr_indptr |-> <<0, 2>>, Xr_indices |-> <<1, 2>>,
       Xc |-> <<2, 1>>, Xc_indptr |-> <<0, 1, 2>>, Xc_indices |-> <<1, 1>>],
      [dimA |-> 2, dimB |-> 0,
       Xr |-> <<>>, Xr_indptr |-> <<0, 0, 0>>, Xr_indices |-> <<>>,
       Xc |-> <<>>, Xc_indptr |-> <<0>>, Xc_indices |-> <<>>] }

\* first entries (of A, of B) of the caller-initialised factor matrices
InitVals == { <<1, 1>>, <<-1, -1>> }

\* (l1_reg, l2_reg) pairs
RegChoices == { <<0, 0>>, <<1, 1>> }

\* content of freshly malloc'ed memory
GarbageVals == {0, 7}

InitMatrix(dim, k, v) ==
    [i \in 1..dim |-> [j \in 1..k |-> R(v + i - 1)]]

NULL == [owner |-> -1, len |-> 0]

Idle == [row |-> 0, X |-> <<>>, X_ind |-> <<>>, nnz_this |-> 0,
         buf |-> NULL, grad |-> <<>>]

Threads == 0..(MaxThreads - 1)

(* -------------------------------------------------------------- state *)
VARIABLES
    arg,                 \* the arguments of run_poismf (A, B: initial content)
    nthreads,            \* default OpenMP team size of this process
    minimizer,           \* behaviour of the external minimizer in this run
    A, B,                \* factor matrices, updated in place
    cnst_sum,            \* content of the cnst_sum array
    cnst_sum_ptr,        \* "unset" | "null" | "live" | "freed"
    buffer_alloc_error,
    buffer_arr,          \* threadprivate pointer, one per thread
    heap,                \* owners of the scratch buffers not yet freed
    step_size, neg_step_sz, cnst_div,
    fulliter,
    pc,                  \* position in run_poismf
    half,                \* which matrix the current half-iteration updates
    nextRow,             \* next row the dynamic schedule hands out
    wk,                  \* per thread: the row update in progress
    rowsDone,            \* per row: threads that updated it in this phase
    regionDone,          \* threads that finished the current parallel region
    nSums, nRowUpdates   \* executed sum_by_cols calls / row updates

vars == <<arg, nthreads, minimizer, A, B, cnst_sum, cnst_sum_ptr, buffer_alloc_error,
          buffer_arr, heap, step_size, neg_step_sz, cnst_div, fulliter, pc,
          half, nextRow, wk, rowsDone, regionDone, nSums, nRowUpdates>>

dataVars == <<A, B, cnst_sum, step_size, neg_step_sz, cnst_div, fulliter>>
memVars  == <<cnst_sum_ptr, buffer_alloc_error, buffer_arr, heap>>
loopVars == <<half, nextRow, wk, rowsDone>>
countVars == <<nSums, nRowUpdates>>

Init ==
    /\ \E m \in Matrices, kk \in 1..MaxK, cg \in BOOLEAN,
          ni \in 0..MaxIter, np \in 0..MaxPass, nc \in 1..MaxThreads,
          reg \in RegChoices, iv \in InitVals :
          arg = [k |-> kk, use_cg |-> cg, numiter |-> ni, npass |-> np,
                 ncores |-> nc, l1_reg |-> R(reg[1]), l2_reg |-> R(reg[2]),
                 step_size |-> One, dimA |-> m.dimA, dimB |-> m.dimB,
                 Xr |-> m.Xr, Xr_indptr |-> m.Xr_indptr,
                 Xr_indices |-> m.Xr_indices,
                 Xc |-> m.Xc, Xc_indptr |-> m.Xc_indptr,
                 Xc_indices |-> m.Xc_indices,
                 A |-> InitMatrix(m.dimA, kk, iv[1]),
                 B |-> InitMatrix(m.dimB, kk, iv[2])]
    /\ nthreads \in 1..MaxThreads
    /\ minimizer \in (IF arg.use_cg THEN MinimizerMoves ELSE {"stay"})
    /\ A = arg.A
    /\ B = arg.B
    /\ cnst_sum = <<>>
    /\ cnst_sum_ptr = "unset"
    /\ buffer_alloc_error = FALSE
    /\ buffer_arr = [w \in Threads |-> NULL]
    /\ heap = {}
    /\ step_size = arg.step_size
    /\ neg_step_sz = Zero
    /\ cnst_div = Zero
    /\ fulliter = 0
    /\ pc = "malloc"
    /\ half = "A"
    /\ nextRow = 1
    /\ wk = [w \in Threads |-> Idle]
    /\ rowsDone = <<>>
    /\ regionDone = {}
    /\ nSums = 0
    /\ nRowUpdates = 0

(* --------------------------------------------------- run start: allocation *)
\* double *cnst_sum = malloc(sizeof(double) * k);  buffer_alloc_error = false;
MallocCnstSum ==
    /\ pc = "malloc"
    /\ \/ /\ cnst_sum_ptr' = "null"
          /\ cnst_sum' = <<>>
       \/ /\ cnst_sum_ptr' = "live"
          /\ \E g \in GarbageVals : cnst_sum' = [i \in 1..arg.k |-> R(g)]
    /\ buffer_alloc_error' = FALSE
    /\ regionDone' = {}
    /\ pc' = "alloc_region"
    /\ UNCHANGED <<arg, nthreads, minimizer, A, B, buffer_arr, heap, step_size,
                   neg_step_sz, cnst_div, fulliter, loopVars, countVars>>

BufLen ==
    IF arg.use_cg THEN 4 * arg.k ELSE arg.k

\* body of the first "omp parallel" region, run by thread w of the default team
AllocBuffer(w) ==
    /\ pc = "alloc_region"
    /\ w < nthreads
    /\ w \notin regionDone
    /\ \/ /\ buffer_arr' = [buffer_arr EXCEPT ![w] = [owner |-> w, len |-> BufLen]]
          /\ heap' = heap \cup {w}
          /\ UNCHANGED buffer_alloc_error
       \/ /\ buffer_arr' = [buffer_arr EXCEPT ![w] = NULL]
          /\ buffer_alloc_error' = TRUE
          /\ UNCHANGED heap
    /\ regionDone' = regionDone \cup {w}
    /\ UNCHANGED <<arg, nthreads, minimizer, dataVars, cnst_sum_ptr, pc, loopVars, countVars>>

CheckAlloc_flagonly ==
    /\ pc = "alloc_region"
    /\ regionDone = 0..(nthreads - 1)
    /\ IF buffer_alloc_error
       THEN pc' = "cleanup" /\ UNCHANGED neg_step_sz
       ELSE pc' = "loop" /\ neg_step_sz' = dNeg(step_size)
    /\ UNCHANGED <<arg, nthreads, minimizer, A, B, cnst_sum, step_size, cnst_div, fulliter,
                   memVars, loopVars, regionDone, countVars>>

\* end of the region (implicit barrier), then
\* if (buffer_alloc_error || cnst_sum == NULL) goto cleanup;
CheckAlloc ==
    /\ pc = "alloc_region"
    /\ regionDone = 0..(nthreads - 1)
    /\ IF buffer_alloc_error \/ cnst_sum_ptr = "null"
       THEN pc' = "cleanup" /\ UNCHANGED neg_step_sz
       ELSE pc' = "loop" /\ neg_step_sz' = dNeg(step_size)
    /\ UNCHANGED <<arg, nthreads, minimizer, A, B, cnst_sum, step_size, cnst_div, fulliter,
                   memVars, loopVars, regionDone, countVars>>

(* ------------------------------------------------------------ outer loop *)
LoopHead_offbyone ==
    /\ pc = "loop"
    /\ IF fulliter <= arg.numiter
       THEN /\ cnst_div' = dRecip(dAdd(One, dMul(dMul(R(2), arg.l2_reg), step_size)))
            /\ pc' = "sum"
       ELSE /\ pc' = "cleanup"
            /\ UNCHANGED cnst_div
    /\ half' = "A"
    /\ UNCHANGED <<arg, nthreads, minimizer, A, B, cnst_sum, step_size, neg_step_sz,
                   fulliter, memVars, nextRow, wk, rowsDone, regionDone, countVars>>

\* for (fulliter = 0; fulliter < numiter; fulliter++) { cnst_div = ...
LoopHead ==
    /\ pc = "loop"
    /\ IF fulliter < arg.numiter
       THEN /\ cnst_div' = dRecip(dAdd(One, dMul(dMul(R(2), arg.l2_reg), step_size)))
            /\ pc' = "sum"
       ELSE /\ pc' = "cleanup"
            /\ UNCHANGED cnst_div
    /\ half' = "A"
    /\ UNCHANGED <<arg, nthreads, minimizer, A, B, cnst_sum, step_size, neg_step_sz,
                   fulliter, memVars, nextRow, wk, rowsDone, regionDone, countVars>>

\* the arguments run_poismf passes to pgd_iteration / cg_iteration for half h
HalfArgs(h) ==
    IF h = "A"
    THEN [F |-> B, dim |-> arg.dimA, dimF |-> arg.dimB,
          X |-> arg.Xr, indptr |-> arg.Xr_indptr, indices |-> arg.Xr_indices]
    ELSE [F |-> A, dim |-> arg.dimB, dimF |-> arg.dimA,
          X |-> IF arg.use_cg THEN arg.Xr ELSE arg.Xc,
          indptr |-> arg.Xc_indptr, indices |-> arg.Xc_indices]

Target(h) ==
    IF h = "A" THEN A ELSE B

\* sum_by_cols(cnst_sum, B, dimB, k, ncores)  /  sum_by_cols(cnst_sum, A, dimA, ...)
SumByCols ==
    /\ pc = "sum"
    /\ cnst_sum' = sum_by_cols(cnst_sum, HalfArgs(half).F,
                               HalfArgs(half).dimF, arg.k)
    /\ nSums' = nSums + 1
    /\ pc' = "reg"
    /\ UNCHANGED <<arg, nthreads, minimizer, A, B, step_size, neg_step_sz, cnst_div,
                   fulliter, memVars, loopVars, regionDone, nRowUpdates>>

\* if (l1_reg > 0) cnst_sum[kk] += l1_reg;  PGD: cblas_dscal(k, neg_step_sz, cnst_sum)
AddReg(csum) ==
    LET c1 == IF dGT0(arg.l1_reg)
              THEN [i \in 1..arg.k |-> dAdd(csum[i], arg.l1_reg)]
              ELSE csum
    IN  IF arg.use_cg THEN c1 ELSE cblas_dscal(arg.k, neg_step_sz, c1)

\* the constants are finished and the parallel row loop is entered
StartHalf ==
    /\ pc = "reg"
    /\ cnst_sum' = AddReg(cnst_sum)
    /\ nextRow' = 1
    /\ wk' = [w \in Threads |-> Idle]
    /\ rowsDone' = [r \in 1..HalfArgs(half).dim |-> {}]
    /\ pc' = "rows"
    /\ UNCHANGED <<arg, nthreads, minimizer, A, B, step_size, neg_step_sz, cnst_div,
                   fulliter, memVars, half, regionDone, countVars>>

(* --------------------------------------------------- row-parallel phase *)
\* fdata of the row update of row r: { F, Fsum, X, X_ind, nnz_this, l2_reg }
RowData(h, r) ==
    [F |-> HalfArgs(h).F, Fsum |-> cnst_sum,
     X |-> Slice(HalfArgs(h).X, HalfArgs(h).indptr, r),
     X_ind |-> Slice(HalfArgs(h).indices, HalfArgs(h).indptr, r),
     nnz_this |-> HalfArgs(h).indptr[r + 1] - HalfArgs(h).indptr[r],
     l2_reg |-> arg.l2_reg]

\* the row update writes through buffer_arr (PGD: calc_grad_pgd's memset)
WritesBuffer ==
    ~arg.use_cg /\ arg.npass >= 1

\* what thread w holds while it updates row r
RowWork(w, r) ==
    [row |-> r,
     X |-> RowData(half, r).X,
     X_ind |-> RowData(half, r).X_ind,
     nnz_this |-> RowData(half, r).nnz_this,
     buf |-> buffer_arr[w],
     grad |-> IF arg.use_cg
              THEN calc_grad_single(Target(half)[r], arg.k, RowData(half, r))
              ELSE <<>>]

\* a scheduler that lets two threads read the same value of the loop counter
RowStart_race(w) ==
    /\ pc = "rows"
    /\ w < arg.ncores
    /\ wk[w].row = 0
    /\ nextRow <= HalfArgs(half).dim
    /\ ~(WritesBuffer /\ buffer_arr[w] = NULL)
    /\ LET r == IF \E v \in Threads : wk[v].row = nextRow - 1 /\ nextRow > 1
                THEN nextRow - 1 ELSE nextRow
       IN  wk' = [wk EXCEPT ![w] = RowWork(w, r)]
    /\ nextRow' = nextRow + 1
    /\ UNCHANGED <<arg, nthreads, minimizer, dataVars, memVars, pc, half, rowsDone,
                   regionDone, countVars>>

\* schedule(dynamic): the next row of the loop is handed to thread w of the
\* team of ncores threads
RowStart(w) ==
    /\ pc = "rows"
    /\ w < arg.ncores
    /\ wk[w].row = 0
    /\ nextRow <= HalfArgs(half).dim
    /\ ~(WritesBuffer /\ buffer_arr[w] = NULL)
    /\ wk' = [wk EXCEPT ![w] = RowWork(w, nextRow)]
    /\ nextRow' = nextRow + 1
    /\ UNCHANGED <<arg, nthreads, minimizer, dataVars, memVars, pc, half, rowsDone,
                   regionDone, countVars>>

\* thread w was not in the team that ran the allocation region: its
\* buffer_arr is NULL and the PGD pass writes through it
NullBufferFault(w) ==
    /\ pc = "rows"
    /\ w < arg.ncores
    /\ wk[w].row = 0
    /\ nextRow <= HalfArgs(half).dim
    /\ WritesBuffer /\ buffer_arr[w] = NULL
    /\ wk' = [wk EXCEPT ![w] = RowWork(w, nextRow)]
    /\ nextRow' = nextRow + 1
    /\ pc' = "crashed"
    /\ UNCHANGED <<arg, nthreads, minimizer, dataVars, memVars, half, rowsDone,
                   regionDone, countVars>>

\* the results the update of the row held by thread w can produce
RowResults(w) ==
    LET r    == wk[w].row
        curr == Target(half)[r]
    IN  IF arg.use_cg
        THEN { ClipRow(minimize_nonneg_cg(curr, arg.k, wk[w].grad, minimizer),
                       arg.k) }
        ELSE { pgd_row(curr, HalfArgs(half).F, wk[w].X, wk[w].X_ind,
                       wk[w].nnz_this, arg.k, cnst_div, cnst_sum, step_size,
                       arg.npass) }

\* thread w completes the update of its row and writes it back
RowFinish(w) ==
    /\ wk[w].row # 0
    /\ pc = "rows"
    /\ \E new \in RowResults(w) :
          IF half = "A"
          THEN A' = [A EXCEPT ![wk[w].row] = new] /\ UNCHANGED B
          ELSE B' = [B EXCEPT ![wk[w].row] = new] /\ UNCHANGED A
    /\ rowsDone' = [rowsDone EXCEPT ![wk[w].row] = @ \cup {w}]
    /\ wk' = [wk EXCEPT ![w] = Idle]
    /\ nRowUpdates' = nRowUpdates + 1
    /\ UNCHANGED <<arg, nthreads, minimizer, cnst_sum, step_size, neg_step_sz, cnst_div,
                   fulliter, memVars, pc, half, nextRow, regionDone, nSums>>

\* after the B half: PGD halves the step; the outer iteration is complete
AfterHalf(decayA) ==
    IF half = "A"
    THEN /\ half' = "B"
         /\ pc' = "sum"
         /\ IF decayA /\ ~arg.use_cg
            THEN step_size' = dMul(step_size, Half) /\ neg_step_sz' = dNeg(step_size')
            ELSE UNCHANGED <<step_size, neg_step_sz>>
         /\ UNCHANGED fulliter
    ELSE /\ half' = "A"
         /\ pc' = "loop"
         /\ fulliter' = fulliter + 1
         /\ IF arg.use_cg
            THEN UNCHANGED <<step_size, neg_step_sz>>
            ELSE step_size' = dMul(step_size, Half) /\ neg_step_sz' = dNeg(step_size')

EndHalf_nobarrier ==
    /\ pc = "rows"
    /\ nextRow > HalfArgs(half).dim
    /\ AfterHalf(FALSE)
    /\ UNCHANGED <<arg, nthreads, minimizer, A, B, cnst_sum, cnst_div, memVars, nextRow,
                   wk, rowsDone, regionDone, countVars>>

EndHalf_decayboth ==
    /\ pc = "rows"
    /\ nextRow > HalfArgs(half).dim
    /\ \A w \in Threads : wk[w].row = 0
    /\ AfterHalf(TRUE)
    /\ UNCHANGED <<arg, nthreads, minimizer, A, B, cnst_sum, cnst_div, memVars, nextRow,
                   wk, rowsDone, regionDone, countVars>>

\* implicit barrier at the end of the parallel for, then the code after the
\* call of pgd_iteration / cg_iteration
EndHalf ==
    /\ pc = "rows"
    /\ nextRow > HalfArgs(half).dim
    /\ \A w \in Threads : wk[w].row = 0
    /\ AfterHalf(FALSE)
    /\ UNCHANGED <<arg, nthreads, minimizer, A, B, cnst_sum, cnst_div, memVars, nextRow,
                   wk, rowsDone, regionDone, countVars>>

(* --------------------------------------------------------------- cleanup *)
\* cleanup: free(cnst_sum);
FreeCnstSum ==
    /\ pc = "cleanup"
    /\ cnst_sum_ptr' = IF cnst_sum_ptr = "live" THEN "freed" ELSE cnst_sum_ptr
    /\ regionDone' = {}
    /\ pc' = "free_region"
    /\ UNCHANGED <<arg, nthreads, minimizer, dataVars, buffer_alloc_error, buffer_arr,
                   heap, loopVars, countVars>>

\* body of the last "omp parallel" region: free(buffer_arr)
FreeBuffer(w) ==
    /\ pc = "free_region"
    /\ w < nthreads
    /\ w \notin regionDone
    /\ heap' = heap \ {buffer_arr[w].owner}
    /\ regionDone' = regionDone \cup {w}
    /\ UNCHANGED <<arg, nthreads, minimizer, dataVars, cnst_sum_ptr, buffer_alloc_error,
                   buffer_arr, pc, loopVars, countVars>>

\* end of the region; run_poismf returns
Return ==
    /\ pc = "free_region"
    /\ regionDone = 0..(nthreads - 1)
    /\ pc' = "done"
    /\ UNCHANGED <<arg, nthreads, minimizer, dataVars, memVars, loopVars, regionDone,
                   countVars>>

Next ==
    \/ MallocCnstSum
    \/ \E w \in Threads : AllocBuffer(w)
    \/ CheckAlloc
    \/ LoopHead
    \/ SumByCols
    \/ StartHalf
    \/ \E w \in Threads : RowStart(w)
    \/ \E w \in Threads : NullBufferFault(w)
    \/ \E w \in Threads : RowFinish(w)
    \/ EndHalf
    \/ FreeCnstSum
    \/ \E w \in Threads : FreeBuffer(w)
    \/ Return

Spec == Init /\ [][Next]_vars

(* ============================================================ properties *)
Entries(M, dim) ==
    { M[i][j] : i \in 1..dim, j \in 1..arg.k }

AllNonNeg ==
    /\ \A x \in Entries(A, arg.dimA) : dGE0(x)
    /\ \A x \in Entries(B, arg.dimB) : dGE0(x)

\* at least one outer iteration is complete and none is in progress
AtIterationEnd ==
    fulliter >= 1 /\ pc \in {"loop", "cleanup", "free_region", "done"}

\* the allocation region is over and some allocation returned NULL
AllocFailed ==
    /\ pc \notin {"malloc", "alloc_region"}
    /\ \/ cnst_sum_ptr = "null"
       \/ \E w \in 0..(nthreads - 1) : buffer_arr[w] = NULL

\* column by column, each column summed over the rows in ascending order
RECURSIVE ColTotal(_, _, _, _)
ColTotal(M, col, row, acc) ==
    IF row > Len(M) THEN acc
    ELSE ColTotal(M, col, row + 1, dAdd(acc, M[row][col]))

NaiveColSum(M, ncol) ==
    [col \in 1..ncol |-> ColTotal(M, col, 1, Zero)]

RECURSIVE HalfPow(_)
HalfPow(n) ==
    IF n = 0 THEN One ELSE dMul(HalfPow(n - 1), Half)

\* initial_step_size x 0.5^n
StepAfter(n) ==
    dMul(arg.step_size, HalfPow(n))

Busy(w) ==
    wk[w].row # 0

(* C1 (as stated): after each completed outer iteration, in PGD and in CG
   mode, for every npass >= 0 and every initial content of A and B, every
   entry of A and of B is >= 0. *)
C1_NonNegAnyPass ==
    AtIterationEnd => AllNonNeg

(* C1 (amended): after each completed outer iteration every entry of A and
   of B is >= 0, in CG mode for every npass >= 0 and in PGD mode for every
   npass >= 1, whatever the initial content of A and B. *)
C1_NonNegativity ==
    (AtIterationEnd /\ (arg.use_cg \/ arg.npass >= 1)) => AllNonNeg

\* a PGD run with passes that started from negative entries has completed
C1_Witness ==
    /\ pc = "done" /\ fulliter >= 1
    /\ ~arg.use_cg /\ arg.npass >= 1
    /\ \E x \in Entries(arg.A, arg.dimA) : ~dGE0(x)
    /\ \E x \in Entries(arg.B, arg.dimB) : ~dGE0(x)
    /\ AllNonNeg

(* C2: in both modes the B half-iteration updates row j of B against A
   with the column-compressed view of column j: values from Xc, offsets
   from Xc_indptr, row indices from Xc_indices. *)
C2_TranspositionSymmetry ==
    \A w \in Threads :
        (pc \in {"rows", "crashed"} /\ half = "B" /\ Busy(w)) =>
            /\ wk[w].X = Slice(arg.Xc, arg.Xc_indptr, wk[w].row)
            /\ wk[w].X_ind = Slice(arg.Xc_indices, arg.Xc_indptr, wk[w].row)
            /\ wk[w].nnz_this = Len(Slice(arg.Xc, arg.Xc_indptr, wk[w].row))

(* C3: if the allocation of cnst_sum or of any thread's scratch buffer
   fails, no column sum and no row update is executed, A and B keep the
   content the caller provided, the run goes straight to cleanup, and on
   return every buffer that was allocated has been freed. *)
C3_AllocFailure ==
    AllocFailed =>
        /\ pc \in {"cleanup", "free_region", "done"}
        /\ A = arg.A /\ B = arg.B
        /\ nSums = 0 /\ nRowUpdates = 0
        /\ pc = "done" => (heap = {} /\ cnst_sum_ptr # "live")

\* cnst_sum could not be allocated, the scratch buffers could, and an
\* optimization was requested; the run has returned
C3_Witness ==
    /\ pc = "done"
    /\ cnst_sum_ptr = "null"
    /\ nthreads >= 2
    /\ \A w \in 0..(nthreads - 1) : buffer_arr[w] # NULL
    /\ arg.numiter >= 1
    /\ heap = {}

\* a scratch buffer could not be allocated while another one could
C3_WitnessPartial ==
    /\ pc = "done"
    /\ \E w, v \in 0..(nthreads - 1) : buffer_arr[w] = NULL /\ buffer_arr[v] # NULL

C4_Inv ==
    /\ \A w, v \in Threads :
          (w # v /\ Busy(w) /\ pc = "rows") => wk[w].row # wk[v].row
    /\ pc = "rows" =>
          \A r \in DOMAIN rowsDone :
              /\ Cardinality(rowsDone[r]) <= 1
              /\ rowsDone[r] # {} => \A w \in Threads : wk[w].row # r
    /\ (pc = "rows" /\ nextRow > HalfArgs(half).dim /\ \A w \in Threads : ~Busy(w)) =>
          \A r \in DOMAIN rowsDone : Cardinality(rowsDone[r]) = 1

C4_Step ==
    (pc = "rows") =>
        /\ IF half = "A" THEN B' = B ELSE A' = A
        /\ cnst_sum' = cnst_sum
        /\ arg' = arg
        /\ \A r \in 1..HalfArgs(half).dim :
              (IF half = "A" THEN A'[r] # A[r] ELSE B'[r] # B[r]) =>
                  \E w \in Threads : wk[w].row = r /\ wk'[w].row = 0

(* C4: in every half-iteration each row of the matrix being updated is
   handed to exactly one thread, no two threads ever hold or write the same
   row, and the counterpart matrix, cnst_sum and the sparse data are not
   written during the phase. *)
C4_DisjointRowWrites ==
    []C4_Inv /\ [][C4_Step]_vars

\* two threads update two different rows at the same time
C4_Witness ==
    /\ pc = "rows"
    /\ \E w, v \in Threads : w # v /\ Busy(w) /\ Busy(v) /\ wk[w].row # wk[v].row

\* the row update of the current run reads or writes the scratch buffer
UsesBuffer ==
    arg.use_cg \/ arg.npass >= 1

(* C5: whenever a thread executes a row update, the scratch buffer it uses
   was allocated for that same thread in the allocation region with the
   length of the solver (k for PGD, 4k for CG), is not freed, and is used by
   no other thread; for every ncores, also when ncores differs from the size
   of the team that ran the allocation region. *)
C5_ScratchOwnership ==
    \A w \in Threads :
        (Busy(w) /\ UsesBuffer) =>
            /\ wk[w].buf # NULL
            /\ wk[w].buf.owner = w
            /\ wk[w].buf.len = BufLen
            /\ w \in heap
            /\ \A v \in Threads : (v # w /\ Busy(v)) => wk[v].buf # wk[w].buf

(* C6: with numiter = 0 no column sum and no row update is executed and A
   and B are identical to their input values, at every point and on return. *)
C6_NoOp ==
    arg.numiter = 0 =>
        /\ A = arg.A /\ B = arg.B
        /\ nSums = 0 /\ nRowUpdates = 0
        /\ pc \notin {"sum", "reg", "rows", "crashed"}

\* a run with numiter = 0 whose allocations succeeded has returned
C6_Witness ==
    /\ pc = "done"
    /\ arg.numiter = 0
    /\ ~AllocFailed
    /\ arg.dimA >= 1 /\ arg.dimB >= 1

(* C7: in PGD mode the step size after n completed outer iterations is
   initial_step_size x 0.5^n; in outer iteration n both half-iterations use
   that value as the gradient step, its negation to scale cnst_sum, and
   cnst_div = 1/(1 + 2*l2_reg*step_size); so the step is halved once per
   outer iteration, after the B half-iteration. *)
C7_StepDecay ==
    ~arg.use_cg =>
        /\ step_size = StepAfter(fulliter)
        /\ pc \in {"loop", "sum", "reg", "rows", "crashed"} =>
              neg_step_sz = dNeg(StepAfter(fulliter))
        /\ pc \in {"sum", "reg", "rows", "crashed"} =>
              cnst_div = dRecip(dAdd(One, dMul(dMul(R(2), arg.l2_reg),
                                               StepAfter(fulliter))))
        /\ pc \in {"rows", "crashed"} =>
              cnst_sum = cblas_dscal(arg.k, dNeg(StepAfter(fulliter)),
                           [i \in 1..arg.k |->
                              LET c == NaiveColSum(HalfArgs(half).F, arg.k)[i]
                              IN  IF dGT0(arg.l1_reg) THEN dAdd(c, arg.l1_reg)
                                  ELSE c])

\* the B half-iteration of the second outer iteration runs with half the
\* initial step
C7_Witness ==
    /\ ~arg.use_cg
    /\ pc = "rows" /\ half = "B" /\ fulliter = 1
    /\ step_size = dMul(arg.step_size, Half)
    /\ arg.l2_reg # Zero
    /\ \E w \in Threads : Busy(w)

(* C8: sum_by_cols zeroes its output and returns for each column the sum of
   the matrix over all rows, equal to the naive column-wise sum, whatever
   the previous content of the output, the number of rows (0 included) and
   ncores. *)
C8_ColumnSum ==
    pc = "reg" =>
        cnst_sum = NaiveColSum(HalfArgs(half).F, arg.k)

\* the column sum of a one-row matrix has overwritten the non-zero constants
\* of the previous half-iteration, with more threads than rows asked for
C8_Witness ==
    /\ pc = "reg" /\ half = "B"
    /\ arg.dimA = 1 /\ arg.ncores > arg.dimA
    /\ \E i \in 1..arg.k : cnst_sum[i] # Zero
    /\ cnst_sum = NaiveColSum(A, arg.k)

\* the column sum of a matrix with no rows
C8_WitnessEmpty ==
    /\ pc = "reg" /\ half = "A" /\ arg.dimB = 0 /\ fulliter = 1
    /\ cnst_sum = memset0(arg.k)

PhaseDone(dim) ==
    /\ DOMAIN rowsDone = 1..dim
    /\ \A r \in 1..dim : rowsDone[r] # {}
    /\ \A w \in Threads : ~Busy(w)

C9_Inv ==
    /\ (pc \in {"sum", "reg"} /\ half = "B") => PhaseDone(arg.dimA)
    /\ (pc \in {"loop", "sum", "reg"} /\ half = "A" /\ fulliter >= 1) =>
          PhaseDone(arg.dimB)
    /\ pc \in {"rows", "crashed"} =>
          /\ cnst_sum = AddReg(NaiveColSum(HalfArgs(half).F, arg.k))
          /\ nSums = 2 * fulliter + (IF half = "A" THEN 1 ELSE 2)

PhaseOrder ==
    { <<"loop", "A", "sum", "A">>, <<"sum", "A", "reg", "A">>,
      <<"reg", "A", "rows", "A">>, <<"rows", "A", "sum", "B">>,
      <<"sum", "B", "reg", "B">>, <<"reg", "B", "rows", "B">>,
      <<"rows", "B", "loop", "A">>, <<"loop", "A", "cleanup", "A">> }

C9_Step ==
    (pc' # pc /\ pc \in {"loop", "sum", "reg", "rows"} /\ pc' # "crashed") =>
        <<pc, half, pc', half'>> \in PhaseOrder

(* C9: within every outer iteration the phases run in the order column sum
   of B, update of all rows of A, column sum of A, update of all rows of B;
   a column sum starts only after every row of the preceding row phase has
   finished, and the cnst_sum a row phase uses is the one computed from the
   matrix held fixed in that same half-iteration. *)
C9_PhaseOrdering ==
    []C9_Inv /\ [][C9_Step]_vars

\* the column sum of B for the second outer iteration, after two rows of B
\* were updated by a team of at least two threads
C9_Witness ==
    /\ pc = "sum" /\ half = "A" /\ fulliter = 1
    /\ arg.dimB = 2 /\ arg.ncores >= 2
    /\ Cardinality(UNION { rowsDone[r] : r \in DOMAIN rowsDone }) = 2

\* Fsum + 2*l2_reg*curr - sum_i (x_i/pred_i) * F[index_i]
GradientFormula(x, n, data) ==
    grad_single_loop(
        cblas_daxpy(n, dMul(R(2), data.l2_reg), x, data.Fsum),
        x, n, data.F, data.X, data.X_ind, data.nnz_this, 1)

(* C10: for every row vector curr of length k, calc_grad_single returns
   Fsum + 2*l2_reg*curr - sum_i (x_i/pred_i)*F[index_i], the coefficient of
   the L2 term being 2*l2_reg for every k. *)
C10_CombinedGradient ==
    \A w \in Threads :
        (arg.use_cg /\ pc = "rows" /\ Busy(w)) =>
            wk[w].grad = GradientFormula(Target(half)[wk[w].row], arg.k,
                           [F |-> HalfArgs(half).F, Fsum |-> cnst_sum,
                            X |-> wk[w].X, X_ind |-> wk[w].X_ind,
                            nnz_this |-> wk[w].nnz_this,
                            l2_reg |-> arg.l2_reg])

====
